---- MODULE Spec2Model ----
(***************************************************************************)
(* Distributed data-parallel training script train.py: N worker processes  *)
(* started by torch.distributed.launch, each running main().  The workers  *)
(* share the checkpoint file model_filepath and synchronise only in the    *)
(* gradient all-reduce of loss.backward().                                 *)
(***************************************************************************)
EXTENDS Integers, Sequences, FiniteSets, TLC

(* ------------------------------ bounds -------------------------------- *)
\* largest number of worker processes in a job (nnodes * nproc_per_node)
MaxWorkers == 2
\* largest --num_epochs explored
MaxEpochs == 11
\* number of examples in one worker's shard, len(train_loader.sampler)
ShardLen == 3
\* --batch_size explored
BatchSizeArg == 2
\* number of workers that may raise an exception inside the batch loop
MaxCrashes == 1

(* ------------------------- program constants -------------------------- *)
\* train.py:164  if epoch % 10 == 0
EvalPeriod == 10

VARIABLES
  topo,            \* launcher topology [nnodes, nproc]: one process per device
  argv,            \* parsed flags, the same on every worker: resume, eval, num_epochs
  pc,              \* pc[w]: position of worker w in main()
  params,          \* params[w]: parameters of worker w's replica (ddp_model.state_dict())
  epoch,           \* epoch[w]: loop variable of `for epoch in range(num_epochs)`
  batch,           \* batch[w]: index of the next batch of train_loader
  avg_loss_train,  \* avg_loss_train[w]: accumulator of line 161/189
  accuracy,        \* accuracy[w]: << >> or <<value returned by evaluate>>
  printed,         \* printed[w]: what the worker printed as "Accuracy on test data"
  grads,           \* grads[w]: << >> or <<gradient submitted to the all-reduce>>
  reduced,         \* reduced[w]: << >> or <<averaged gradient delivered to w>>
  fwd, bwd, steps, \* per worker: forward passes, completed backward passes, optimizer steps
  evals,           \* evals[w]: set of epochs at which w called evaluate inside the loop
  saves,           \* saves[w]: sequence of <<epoch, params>> w passed to torch.save
  ckpt,            \* the file at model_filepath: [kind, val], kind "missing", "bad", "torn" or "ok"
  writers,         \* workers currently inside torch.save(..., model_filepath)
  readDirty,       \* readDirty[w]: w's torch.load overlapped a write of the file
  writeDirty,      \* writeDirty[w]: w's torch.save overlapped another write
  sink,            \* sink[w]: sequence of scalars <<tag, value, step>> written with add_scalar
  closed,          \* closed[w]: number of writer.close() calls of w
  crashes,         \* number of exceptions raised inside batch loops so far
  batch_losses,    \* batch_losses[w]: history of <<epoch, loss>>, one per value of line 178-187
  \* one call of evaluate(model, device, test_loader, epoch, criterion, writer)
  test_set,        \* [len, data]: len(test_set) and, per batch, its loss and predictions
  ev_pc,           \* "idle", "loop" or "done"
  ev_i,            \* number of batches of test_loader consumed
  correct, total,  \* the counters of lines 30-31
  avg_loss_test,   \* line 32: the accumulator, then <<numerator, denominator>>
  ev_accuracy,     \* << >> or the returned accuracy <<numerator, denominator>>
  \* one evaluation of the energy term of lines 182-185
  Ec,              \* the energies -logsumexp(outputs[i]) of the rows of the batch
  energy_term,     \* << >> or the value added to the loss
  \* the checkpoint path of lines 80-96
  path_argv,       \* [model_dir, model_filename]
  model_filepath,  \* model_filepath[score]: << >> or <<path>> computed under --score
  \* one checkpoint written by line 167 and read back by lines 115-117
  rt_pc,           \* "idle", "built", "saved", "read" or "loaded"
  saver_model,     \* the wrapped model of the worker that saves: [device, module]
  ckpt_file,       \* << >> or <<the state_dict stored by torch.save>>
  map_location,    \* << >> or <<the device map of line 116>>
  loaded_sd,       \* << >> or <<the state_dict returned by torch.load>>
  ddp_model        \* << >> or <<the resuming worker's wrapped model>>

mainVars == <<topo, argv, pc, params, epoch, batch, avg_loss_train, accuracy, printed,
              grads, reduced, fwd, bwd, steps, evals, saves, ckpt, writers,
              readDirty, writeDirty, sink, closed, crashes, batch_losses>>
evalVars == <<test_set, ev_pc, ev_i, correct, total, avg_loss_test, ev_accuracy>>
energyVars == <<Ec, energy_term>>
pathVars == <<path_argv, model_filepath>>
roundVars == <<rt_pc, saver_model, ckpt_file, map_location, loaded_sd, ddp_model>>
\* the variables the training job never touches
pureVars == <<evalVars, energyVars, pathVars, roundVars>>
vars == <<mainVars, pureVars>>

(* ------------------------------ launcher ------------------------------ *)
\* torch.distributed.launch starts nproc processes on each of nnodes nodes
Topologies ==
  { t \in [nnodes : 1..MaxWorkers, nproc : 1..MaxWorkers] : t.nnodes * t.nproc <= MaxWorkers }

NumWorkers == topo.nnodes * topo.nproc
\* workers are named by their global rank (RANK of init_process_group)
Workers == 0..(NumWorkers - 1)
\* --local_rank: the index of the process on its node, given by the launcher
local_rank(w) == w % topo.nproc
Node(w) == w \div topo.nproc

\* number of batches DataLoader yields for a shard: ceil(len(sampler) / batch_size)
NumBatches == (ShardLen + BatchSizeArg - 1) \div BatchSizeArg

\* parameters of a freshly constructed model under the common seed
InitParams == 0
\* parameters stored in a pre-existing compatible checkpoint
StoredParams == 5

(* --------------------------- numeric helpers -------------------------- *)
RECURSIVE SumOver(_, _)
SumOver(f, S) ==
  IF S = {} THEN 0
  ELSE LET x == CHOOSE y \in S : TRUE IN f[x] + SumOver(f, S \ {x})

\* local gradient of worker w on batch b of its shard
LocalGrad(p, w, b) == (p % 2) + 2 * w + b + 1

\* criterion(outputs, labels) of worker w on batch b
Loss(p, w, b) == (p % 3) + w + b + 1

\* accuracy measured by evaluate() for parameters p
Accuracy(p) == p

\* what worker v contributed to the collective (nothing counts as 0)
Contribution(g, v) == IF g[v] = << >> THEN 0 ELSE g[v][1]

\* DistributedDataParallel: gradients are averaged over all workers
AllReduceMean(g) == SumOver([v \in Workers |-> Contribution(g, v)], Workers) \div NumWorkers

\* optimizer.step() applied to parameters p with gradient g
SgdStep(p, g) == p + g

\* a file content, or the outcome of reading one
File(k, v) == [kind |-> k, val |-> v]

(* -------------------------------- Init -------------------------------- *)
\* the state of a job after construction of the wrapped model (line 111)
JobInit(t, a, c) ==
  /\ topo = t
  /\ argv = a
  /\ ckpt = c
  /\ pc = [w \in Workers |-> "init"]
  /\ params = [w \in Workers |-> InitParams]
  /\ epoch = [w \in Workers |-> 0]
  /\ batch = [w \in Workers |-> 0]
  /\ avg_loss_train = [w \in Workers |-> 0]
  /\ accuracy = [w \in Workers |-> << >>]
  /\ printed = [w \in Workers |-> << >>]
  /\ grads = [w \in Workers |-> << >>]
  /\ reduced = [w \in Workers |-> << >>]
  /\ fwd = [w \in Workers |-> 0]
  /\ bwd = [w \in Workers |-> 0]
  /\ steps = [w \in Workers |-> 0]
  /\ evals = [w \in Workers |-> {}]
  /\ saves = [w \in Workers |-> << >>]
  /\ writers = {}
  /\ readDirty = [w \in Workers |-> FALSE]
  /\ writeDirty = [w \in Workers |-> FALSE]
  /\ sink = [w \in Workers |-> << >>]
  /\ closed = [w \in Workers |-> 0]
  /\ crashes = 0
  /\ batch_losses = [w \in Workers |-> << >>]

\* no job is running: one worker that was given nothing to do
JobIdle ==
  JobInit([nnodes |-> 1, nproc |-> 1],
          [resume |-> FALSE, eval |-> FALSE, num_epochs |-> 0], File("missing", 0))

EvalIdle ==
  /\ test_set = [len |-> 0, data |-> << >>]
  /\ ev_pc = "idle"
  /\ ev_i = 0
  /\ correct = 0
  /\ total = 0
  /\ avg_loss_test = <<0, 1>>
  /\ ev_accuracy = << >>

EnergyIdle == Ec = << >> /\ energy_term = << >>

PathIdle ==
  /\ path_argv = [model_dir |-> << >>, model_filename |-> << >>]
  /\ model_filepath = << >>

RoundIdle ==
  /\ rt_pc = "idle"
  /\ saver_model = << >>
  /\ ckpt_file = << >>
  /\ map_location = << >>
  /\ loaded_sd = << >>
  /\ ddp_model = << >>

Init ==
  /\ \E t \in Topologies :
     \E a \in [resume : BOOLEAN, eval : BOOLEAN, num_epochs : 0..MaxEpochs] :
     \E c \in {File("missing", 0), File("bad", 0), File("ok", StoredParams)} :
       JobInit(t, a, c)
  /\ EvalIdle
  /\ EnergyIdle
  /\ PathIdle
  /\ RoundIdle

(* ----------------------- the checkpoint file -------------------------- *)
\* os-level view: the path exists once a checkpoint was stored or a writer opened it
FileExists == ckpt.kind # "missing" \/ writers # {}

\* the file holds a complete state_dict whose shapes match the model
IsParams(c) == c.kind = "ok"

\* faulty variant: a failed load is swallowed and the fresh parameters are kept
LoadOutcomes_Lenient(w) ==
  {IF IsParams(ckpt) THEN ckpt ELSE File("ok", InitParams)}

\* what torch.load + load_state_dict can produce for worker w:
\* kind "fail" (an exception) or kind "ok" with the parameters.  A read that overlapped a write is a
\* data race on the file: it may fail or see the stored parameters.
LoadOutcomes(w) ==
  IF readDirty[w] \/ writers # {}
    THEN {File("fail", 0)} \cup (IF IsParams(ckpt) THEN {ckpt} ELSE {})
    ELSE IF IsParams(ckpt) THEN {ckpt} ELSE {File("fail", 0)}

\* what the file holds after worker w's torch.save returns
SaveOutcomes(w) ==
  IF writeDirty[w] THEN {File("ok", params[w]), File("torn", 0)} ELSE {File("ok", params[w])}

\* faulty variant: the --eval branch of line 152 is missing
AfterSetup_NoEvalBranch == "epoch"

\* position after line 150: --eval branches to the evaluation, else the epoch loop
AfterSetup == IF argv.eval THEN "evalmode" ELSE "epoch"

\* line 165: the rank test that gates evaluation and checkpointing
IsSaver(w) == local_rank(w) = 0

\* faulty variant: the periodic block runs at the end of each period
IsPeriodic_EndOfPeriod(e) == e % EvalPeriod = EvalPeriod - 1

\* line 164: the epochs at which the model is evaluated and saved
IsPeriodic(e) == e % EvalPeriod = 0

(* ------------------------------ actions ------------------------------- *)
\* lines 115-117, first half: no --resume, or torch.load opens model_filepath
Resume(w) ==
  /\ pc[w] = "init"
  /\ IF ~argv.resume
       THEN /\ pc' = [pc EXCEPT ![w] = AfterSetup]
            /\ UNCHANGED readDirty
       ELSE IF ~FileExists
         THEN /\ pc' = [pc EXCEPT ![w] = "failed"]
              /\ UNCHANGED readDirty
         ELSE /\ pc' = [pc EXCEPT ![w] = "loading"]
              /\ readDirty' = [readDirty EXCEPT ![w] = (writers # {})]
  /\ UNCHANGED <<batch_losses, topo, argv, params, epoch, batch, avg_loss_train, accuracy, printed,
                 grads, reduced, fwd, bwd, steps, evals, saves, ckpt, writers,
                 writeDirty, sink, closed, crashes>>
  /\ UNCHANGED pureVars

\* line 117, second half: the checkpoint is deserialised, remapped to
\* cuda:local_rank and assigned with load_state_dict (strict), then lines 119-150
LoadEnd(w) ==
  /\ pc[w] = "loading"
  /\ \E r \in LoadOutcomes(w) :
       IF r.kind = "fail"
         THEN /\ pc' = [pc EXCEPT ![w] = "failed"]
              /\ UNCHANGED params
         ELSE /\ pc' = [pc EXCEPT ![w] = AfterSetup]
              /\ params' = [params EXCEPT ![w] = r.val]
  /\ readDirty' = [readDirty EXCEPT ![w] = FALSE]
  /\ UNCHANGED <<batch_losses, topo, argv, epoch, batch, avg_loss_train, accuracy, printed,
                 grads, reduced, fwd, bwd, steps, evals, saves, ckpt, writers,
                 writeDirty, sink, closed, crashes>>
  /\ UNCHANGED pureVars

\* line 153: evaluate(..., epoch=0, writer=None)
EvalOnly(w) ==
  /\ pc[w] = "evalmode"
  /\ accuracy' = [accuracy EXCEPT ![w] = <<Accuracy(params[w])>>]
  /\ pc' = [pc EXCEPT ![w] = "print"]
  /\ UNCHANGED <<batch_losses, topo, argv, params, epoch, batch, avg_loss_train, printed,
                 grads, reduced, fwd, bwd, steps, evals, saves, ckpt, writers,
                 readDirty, writeDirty, sink, closed, crashes>>
  /\ UNCHANGED pureVars

\* lines 154-155: print the accuracy, exit()
PrintAndExit(w) ==
  /\ pc[w] = "print"
  /\ printed' = [printed EXCEPT ![w] = accuracy[w]]
  /\ pc' = [pc EXCEPT ![w] = "exited"]
  /\ UNCHANGED <<batch_losses, topo, argv, params, epoch, batch, avg_loss_train, accuracy,
                 grads, reduced, fwd, bwd, steps, evals, saves, ckpt, writers,
                 readDirty, writeDirty, sink, closed, crashes>>
  /\ UNCHANGED pureVars

\* faulty variant: line 161 is missing, the accumulator runs on across epochs
EpochStart_NoReset(w) ==
  /\ pc[w] = "epoch"
  /\ IF epoch[w] < argv.num_epochs
       THEN /\ UNCHANGED avg_loss_train
            /\ batch' = [batch EXCEPT ![w] = 0]
            /\ pc' = [pc EXCEPT ![w] =
                 IF IsPeriodic(epoch[w]) /\ IsSaver(w) THEN "periodic" ELSE "train"]
       ELSE /\ pc' = [pc EXCEPT ![w] = "close"]
            /\ UNCHANGED <<avg_loss_train, batch>>
  /\ UNCHANGED <<batch_losses, topo, argv, params, epoch, accuracy, printed,
                 grads, reduced, fwd, bwd, steps, evals, saves, ckpt, writers,
                 readDirty, writeDirty, sink, closed, crashes>>
  /\ UNCHANGED pureVars

\* lines 158-165 and 172: next epoch of range(num_epochs), reset the accumulator,
\* choose between the periodic evaluation and training; after the last epoch
\* fall through to line 194
EpochStart(w) ==
  /\ pc[w] = "epoch"
  /\ IF epoch[w] < argv.num_epochs
       THEN /\ avg_loss_train' = [avg_loss_train EXCEPT ![w] = 0]
            /\ batch' = [batch EXCEPT ![w] = 0]
            /\ pc' = [pc EXCEPT ![w] =
                 IF IsPeriodic(epoch[w]) /\ IsSaver(w) THEN "periodic" ELSE "train"]
       ELSE /\ pc' = [pc EXCEPT ![w] = "close"]
            /\ UNCHANGED <<avg_loss_train, batch>>
  /\ UNCHANGED <<batch_losses, topo, argv, params, epoch, accuracy, printed,
                 grads, reduced, fwd, bwd, steps, evals, saves, ckpt, writers,
                 readDirty, writeDirty, sink, closed, crashes>>
  /\ UNCHANGED pureVars

\* line 166: evaluate(..., epoch=epoch, writer=writer) writes two scalars
PeriodicEval(w) ==
  /\ pc[w] = "periodic"
  /\ accuracy' = [accuracy EXCEPT ![w] = <<Accuracy(params[w])>>]
  /\ evals' = [evals EXCEPT ![w] = @ \cup {epoch[w]}]
  /\ sink' = [sink EXCEPT ![w] =
        @ \o << <<"Loss/test", <<params[w], 1>>, epoch[w]>>,
                <<"Accuracy/test", <<Accuracy(params[w]), 1>>, epoch[w]>> >>]
  /\ pc' = [pc EXCEPT ![w] = "save"]
  /\ UNCHANGED <<batch_losses, topo, argv, params, epoch, batch, avg_loss_train, printed,
                 grads, reduced, fwd, bwd, steps, saves, ckpt, writers,
                 readDirty, writeDirty, closed, crashes>>
  /\ UNCHANGED pureVars

\* line 167, first half: torch.save opens model_filepath for writing
SaveBegin(w) ==
  /\ pc[w] = "save"
  /\ writers' = writers \cup {w}
  /\ saves' = [saves EXCEPT ![w] = Append(@, <<epoch[w], params[w]>>)]
  /\ readDirty' = [v \in Workers |-> readDirty[v] \/ pc[v] = "loading"]
  /\ writeDirty' = [v \in Workers |->
        IF writers # {} /\ v \in writers \cup {w} THEN TRUE ELSE writeDirty[v]]
  /\ pc' = [pc EXCEPT ![w] = "saving"]
  /\ UNCHANGED <<batch_losses, topo, argv, params, epoch, batch, avg_loss_train, accuracy, printed,
                 grads, reduced, fwd, bwd, steps, evals, ckpt, sink, closed, crashes>>
  /\ UNCHANGED pureVars

\* line 167, second half, and 168-172: torch.save returns, the file holds the state
SaveEnd(w) ==
  /\ pc[w] = "saving"
  /\ \E c \in SaveOutcomes(w) : ckpt' = c
  /\ writers' = writers \ {w}
  /\ writeDirty' = [writeDirty EXCEPT ![w] = FALSE]
  /\ pc' = [pc EXCEPT ![w] = "train"]
  /\ UNCHANGED <<batch_losses, topo, argv, params, epoch, batch, avg_loss_train, accuracy, printed,
                 grads, reduced, fwd, bwd, steps, evals, saves, readDirty,
                 sink, closed, crashes>>
  /\ UNCHANGED pureVars

\* lines 174-189: next batch, zero_grad, forward pass, loss, accumulate
Forward(w) ==
  /\ pc[w] = "train"
  /\ batch[w] < NumBatches
  /\ fwd' = [fwd EXCEPT ![w] = @ + 1]
  /\ avg_loss_train' = [avg_loss_train EXCEPT ![w] = @ + Loss(params[w], w, batch[w])]
  /\ batch_losses' = [batch_losses EXCEPT ![w] =
        Append(@, <<epoch[w], Loss(params[w], w, batch[w])>>)]
  /\ pc' = [pc EXCEPT ![w] = "backward"]
  /\ UNCHANGED <<topo, argv, params, epoch, batch, accuracy, printed,
                 grads, reduced, bwd, steps, evals, saves, ckpt, writers,
                 readDirty, writeDirty, sink, closed, crashes>>
  /\ UNCHANGED pureVars

\* faulty variant: the collective completes without waiting for the peers
AllSubmitted_NoWait(g) == TRUE

\* faulty variant: the collective does not wait for the workers that evaluate
AllSubmitted_SaversExempt(g) == \A v \in Workers : g[v] # << >> \/ IsSaver(v)

\* faulty variant: the collective never completes
AllSubmitted_Never(g) == FALSE

\* faulty variant: the collective leaves out the peers that have died
AllSubmitted_AliveOnly(g) == \A v \in Workers : g[v] # << >> \/ pc[v] = "crashed"

\* every worker has handed its gradient to the all-reduce of this iteration
AllSubmitted(g) == \A v \in Workers : g[v] # << >>

\* line 190, first half: loss.backward() hands the local gradient to the
\* all-reduce; the last worker to arrive completes the collective
BackwardEnter(w) ==
  /\ pc[w] = "backward"
  /\ LET g == [grads EXCEPT ![w] = <<LocalGrad(params[w], w, batch[w])>>] IN
       IF AllSubmitted(g)
         THEN /\ reduced' = [v \in Workers |-> <<AllReduceMean(g)>>]
              /\ grads' = [v \in Workers |-> << >>]
         ELSE /\ grads' = g
              /\ UNCHANGED reduced
  /\ pc' = [pc EXCEPT ![w] = "allreduce"]
  /\ UNCHANGED <<batch_losses, topo, argv, params, epoch, batch, avg_loss_train, accuracy, printed,
                 fwd, bwd, steps, evals, saves, ckpt, writers,
                 readDirty, writeDirty, sink, closed, crashes>>
  /\ UNCHANGED pureVars

\* loss.backward() may return once the averaged gradient has been delivered
BackwardReady(w) == reduced[w] # << >>

\* faulty variant: the optimizer uses the local gradient, not the averaged one
StepGrad_Local(w) == LocalGrad(params[w], w, batch[w])

\* the gradient optimizer.step() applies on worker w
StepGrad(w) == reduced[w][1]

\* lines 190-191: loss.backward() returns with the averaged gradient, optimizer.step()
BackwardStep(w) ==
  /\ pc[w] = "allreduce"
  /\ BackwardReady(w)
  /\ bwd' = [bwd EXCEPT ![w] = @ + 1]
  /\ params' = [params EXCEPT ![w] = SgdStep(@, StepGrad(w))]
  /\ steps' = [steps EXCEPT ![w] = @ + 1]
  /\ reduced' = [reduced EXCEPT ![w] = << >>]
  /\ batch' = [batch EXCEPT ![w] = @ + 1]
  /\ pc' = [pc EXCEPT ![w] = "train"]
  /\ UNCHANGED <<batch_losses, topo, argv, epoch, avg_loss_train, accuracy, printed,
                 grads, fwd, evals, saves, ckpt, writers,
                 readDirty, writeDirty, sink, closed, crashes>>
  /\ UNCHANGED pureVars

\* lines 192-193: train_loader is exhausted; normalise by len(sampler), add_scalar
EpochEnd(w) ==
  /\ pc[w] = "train"
  /\ batch[w] >= NumBatches
  /\ sink' = [sink EXCEPT ![w] =
        Append(@, <<"Loss/train", <<avg_loss_train[w], ShardLen>>, epoch[w]>>)]
  /\ epoch' = [epoch EXCEPT ![w] = @ + 1]
  /\ pc' = [pc EXCEPT ![w] = "epoch"]
  /\ UNCHANGED <<batch_losses, topo, argv, params, batch, avg_loss_train, accuracy, printed,
                 grads, reduced, fwd, bwd, steps, evals, saves, ckpt, writers,
                 readDirty, writeDirty, closed, crashes>>
  /\ UNCHANGED pureVars

\* faulty variant: the script ends without closing the writer
Close_KeepOpen(w) ==
  /\ pc[w] = "close"
  /\ pc' = [pc EXCEPT ![w] = "done"]
  /\ UNCHANGED <<batch_losses, topo, argv, params, epoch, batch, avg_loss_train, accuracy, printed,
                 grads, reduced, fwd, bwd, steps, evals, saves, ckpt, writers,
                 readDirty, writeDirty, sink, closed>>
  /\ UNCHANGED <<crashes, pureVars>>

\* line 194: writer.close()
Close(w) ==
  /\ pc[w] = "close"
  /\ closed' = [closed EXCEPT ![w] = @ + 1]
  /\ pc' = [pc EXCEPT ![w] = "done"]
  /\ UNCHANGED <<batch_losses, topo, argv, params, epoch, batch, avg_loss_train, accuracy, printed,
                 grads, reduced, fwd, bwd, steps, evals, saves, ckpt, writers,
                 readDirty, writeDirty, sink>>
  /\ UNCHANGED <<crashes, pureVars>>

\* lines 174-191: an exception inside the batch loop (device OOM, ...) is not
\* caught and ends the process: raised before the forward pass completes, or
\* inside loss.backward() while the all-reduce waits for the peers (the dead
\* process takes its contribution with it: the collective cannot complete),
\* or after the all-reduce completed, in the rest of line 190 or in line 191
Crash(w) ==
  /\ crashes < MaxCrashes
  /\ \/ pc[w] = "train" /\ batch[w] < NumBatches
     \/ pc[w] = "allreduce"
  /\ crashes' = crashes + 1
  /\ grads' = [grads EXCEPT ![w] = << >>]
  /\ pc' = [pc EXCEPT ![w] = "crashed"]
  /\ UNCHANGED <<batch_losses, topo, argv, params, epoch, batch, avg_loss_train, accuracy, printed,
                 reduced, fwd, bwd, steps, evals, saves, ckpt, writers,
                 readDirty, writeDirty, sink, closed>>
  /\ UNCHANGED pureVars

Next ==
  \/ \E w \in Workers : Resume(w)
  \/ \E w \in Workers : LoadEnd(w)
  \/ \E w \in Workers : EvalOnly(w)
  \/ \E w \in Workers : PrintAndExit(w)
  \/ \E w \in Workers : EpochStart(w)
  \/ \E w \in Workers : PeriodicEval(w)
  \/ \E w \in Workers : SaveBegin(w)
  \/ \E w \in Workers : SaveEnd(w)
  \/ \E w \in Workers : Forward(w)
  \/ \E w \in Workers : BackwardEnter(w)
  \/ \E w \in Workers : BackwardStep(w)
  \/ \E w \in Workers : EpochEnd(w)
  \/ \E w \in Workers : Close(w)
  \/ \E w \in Workers : Crash(w)

Spec == Init /\ [][Next]_vars

\* the job in which no exception is raised inside a batch loop
NextNoCrash ==
  \/ \E w \in Workers : Resume(w)
  \/ \E w \in Workers : LoadEnd(w)
  \/ \E w \in Workers : EvalOnly(w)
  \/ \E w \in Workers : PrintAndExit(w)
  \/ \E w \in Workers : EpochStart(w)
  \/ \E w \in Workers : PeriodicEval(w)
  \/ \E w \in Workers : SaveBegin(w)
  \/ \E w \in Workers : SaveEnd(w)
  \/ \E w \in Workers : Forward(w)
  \/ \E w \in Workers : BackwardEnter(w)
  \/ \E w \in Workers : BackwardStep(w)
  \/ \E w \in Workers : EpochEnd(w)
  \/ \E w \in Workers : Close(w)

\* the statements worker w's process can execute next
WorkerStep(w) ==
  /\ w \in Workers
  /\ \/ Resume(w) \/ LoadEnd(w) \/ EvalOnly(w) \/ PrintAndExit(w)
     \/ EpochStart(w) \/ PeriodicEval(w) \/ SaveBegin(w) \/ SaveEnd(w)
     \/ Forward(w) \/ BackwardEnter(w) \/ BackwardStep(w)
     \/ EpochEnd(w) \/ Close(w)

\* every worker is a process of its own that the operating system keeps
\* running: a worker that can take a step eventually takes one
SpecFair ==
  /\ Init
  /\ [][NextNoCrash]_vars
  /\ \A w \in 0..(MaxWorkers - 1) : WF_vars(WorkerStep(w))

(* ======================= evaluate (lines 26-50) ======================= *)
\* largest test set explored, len(test_set)
MaxTestLen == 258
\* train.py:145  DataLoader(dataset=test_set, batch_size=128, shuffle=False)
TestBatchSize == 128

\* per-batch criterion values explored
LossVals == {1, 2}

\* len(test_loader): the number of batches of a test set of n examples
NumTestBatches(n) == (n + TestBatchSize - 1) \div TestBatchSize

\* labels.size(0) of the i-th batch (1-based) of a test set of n examples
TestBatchLen(n, i) ==
  IF i * TestBatchSize <= n THEN TestBatchSize ELSE n - (i - 1) * TestBatchSize

\* line 43: len(test_loader.sampler); the loader is built with shuffle=False, so
\* its sampler is a SequentialSampler over test_set and counts examples
Len_test_loader_sampler(ts) == ts.len

\* the test sets explored: a length and, per batch, the mean loss the
\* criterion returns and whether the predictions are all right or all wrong
TestSets ==
  UNION { { [len |-> n, data |-> d] :
              d \in [1..NumTestBatches(n) -> [loss : LossVals, all_correct : BOOLEAN]] }
          : n \in 1..MaxTestLen }

\* (predicted == labels).sum().item() of the i-th batch
NumCorrect(ts, i) == IF ts.data[i].all_correct THEN TestBatchLen(ts.len, i) ELSE 0

EvalInit ==
  /\ JobIdle
  /\ EnergyIdle
  /\ PathIdle
  /\ RoundIdle
  /\ test_set \in TestSets
  /\ ev_pc = "loop"
  /\ ev_i = 0
  /\ correct = 0
  /\ total = 0
  /\ avg_loss_test = <<0, 1>>
  /\ ev_accuracy = << >>

\* lines 34-41: one batch of test_loader
EvalBatch ==
  /\ ev_pc = "loop"
  /\ ev_i < NumTestBatches(test_set.len)
  /\ ev_i' = ev_i + 1
  /\ total' = total + TestBatchLen(test_set.len, ev_i + 1)
  /\ correct' = correct + NumCorrect(test_set, ev_i + 1)
  /\ avg_loss_test' = <<avg_loss_test[1] + test_set.data[ev_i + 1].loss, 1>>
  /\ UNCHANGED <<test_set, ev_pc, ev_accuracy>>
  /\ UNCHANGED <<mainVars, energyVars, pathVars, roundVars>>

\* lines 43-50: normalise the accumulated loss, compute and return the accuracy
EvalFinish ==
  /\ ev_pc = "loop"
  /\ ev_i = NumTestBatches(test_set.len)
  /\ avg_loss_test' = <<avg_loss_test[1], Len_test_loader_sampler(test_set)>>
  /\ ev_accuracy' = <<correct, total>>
  /\ ev_pc' = "done"
  /\ UNCHANGED <<test_set, ev_i, correct, total>>
  /\ UNCHANGED <<mainVars, energyVars, pathVars, roundVars>>

EvalNext == EvalBatch \/ EvalFinish

SpecEvaluate == EvalInit /\ [][EvalNext]_vars

\* equality of two fractions <<numerator, denominator>>
RatEq(a, b) == a[1] * b[2] = b[1] * a[2]

\* the sum of the per-batch losses of a test set
RECURSIVE SumLoss(_, _)
SumLoss(d, k) == IF k = 0 THEN 0 ELSE d[k].loss + SumLoss(d, k - 1)

(* C7: the average test loss computed by evaluate equals the sum of the
   per-batch losses divided by the number of batches iterated. *)
C7_AvgLossPerBatch ==
  ev_pc = "done" =>
    RatEq(avg_loss_test, <<SumLoss(test_set.data, ev_i), ev_i>>)

(* ================== energy regularisation (lines 182-185) ============== *)
\* largest number of rows of a batch explored
MaxBatchRows == 5
\* train.py:183  len(inputs[0]): the first dimension of one input image
SplitPoint == 3
\* train.py:185  relu(Ec_in-(-25))
M_in == -25
\* train.py:185  relu((-7)-Ec_out)
M_out == -7
\* train.py:185  the weight 0.1, as the denominator of 1/10
WeightDen == 10

\* energies explored, on both sides of both margins
EnergyVals == {-26, -24, -22, -10, -8, -6}

RECURSIVE SeqsUpTo(_, _)
\* the sequences over S of length 0..n
SeqsUpTo(S, n) ==
  IF n = 0 THEN { << >> }
  ELSE LET shorter == SeqsUpTo(S, n - 1)
       IN shorter \cup { Append(q, x) : q \in {r \in shorter : Len(r) = n - 1}, x \in S }

\* python s[k:]
SliceFrom(q, k) == IF k >= Len(q) THEN << >> ELSE SubSeq(q, k + 1, Len(q))
\* python s[:k]
SliceTo(q, k) == IF k >= Len(q) THEN q ELSE SubSeq(q, 1, k)

\* faulty variant: the clamp at 0 is missing
Relu_Identity(x) == x

\* nn.functional.relu
Relu(x) == IF x > 0 THEN x ELSE 0

RECURSIVE SumSeq(_)
SumSeq(q) == IF q = << >> THEN 0 ELSE Head(q) + SumSeq(Tail(q))

\* a tensor value: not-a-number, or the fraction num/den
NaN == [nan |-> TRUE, num |-> 0, den |-> 1]
Val(n, d) == [nan |-> FALSE, num |-> n, den |-> d]

\* torch.pow(x, 2).mean() of a vector: NaN for an empty one
MeanOfSquares(q) ==
  IF q = << >> THEN NaN
  ELSE Val(SumSeq([i \in 1..Len(q) |-> q[i] * q[i]]), Len(q))

\* a + b and (1/WeightDen) * a on tensor values
Add(a, b) ==
  IF a.nan \/ b.nan THEN NaN ELSE Val(a.num * b.den + b.num * a.den, a.den * b.den)
Scale(a) == IF a.nan THEN NaN ELSE Val(a.num, WeightDen * a.den)

\* lines 183-185: the term added to the loss for the row energies E
EnergyTerm(E) ==
  LET Ec_out == SliceFrom(E, SplitPoint)
      Ec_in == SliceTo(E, SplitPoint)
  IN Scale(Add(MeanOfSquares([i \in 1..Len(Ec_in) |-> Relu(Ec_in[i] - M_in)]),
               MeanOfSquares([i \in 1..Len(Ec_out) |-> Relu(M_out - Ec_out[i])])))

EnergyInit ==
  /\ JobIdle
  /\ EvalIdle
  /\ PathIdle
  /\ RoundIdle
  /\ Ec \in SeqsUpTo(EnergyVals, MaxBatchRows) \ { << >> }
  /\ energy_term = << >>

\* lines 182-185 with argv.score == "energy"
AddEnergyTerm ==
  /\ energy_term = << >>
  /\ energy_term' = <<EnergyTerm(Ec)>>
  /\ UNCHANGED Ec
  /\ UNCHANGED <<mainVars, evalVars, pathVars, roundVars>>

EnergyNext == AddEnergyTerm

SpecEnergy == EnergyInit /\ [][EnergyNext]_vars

\* the rows before the split point and those from it on
InRows == {i \in 1..Len(Ec) : i <= SplitPoint}
OutRows == {i \in 1..Len(Ec) : i > SplitPoint}

Max0(x) == IF x < 0 THEN 0 ELSE x
Sq(x) == x * x

\* equality of tensor values
ValEq(a, b) == (a.nan /\ b.nan) \/ (~a.nan /\ ~b.nan /\ a.num * b.den = b.num * a.den)

\* sums, over the in-distribution rows and the auxiliary rows, of the excess
\* over the margin and of its square
ExcessIn == SumOver([i \in InRows |-> Max0(Ec[i] + 25)], InRows)
ExcessOut == SumOver([i \in OutRows |-> Max0(-7 - Ec[i])], OutRows)
SqExcessIn == SumOver([i \in InRows |-> Sq(Max0(Ec[i] + 25))], InRows)
SqExcessOut == SumOver([i \in OutRows |-> Sq(Max0(-7 - Ec[i]))], OutRows)
NIn == Cardinality(InRows)
NOut == Cardinality(OutRows)

(* C8 as stated: the term is 0.1 * (mean(relu(E_in+25))^2 + mean(relu(-7-E_out))^2),
   the squares taken of the two means. *)
C8_SquareOfMeans ==
  energy_term # << >> =>
    ValEq(energy_term[1],
          IF NIn = 0 \/ NOut = 0 THEN NaN
          ELSE Val(Sq(ExcessIn) * Sq(NOut) + Sq(ExcessOut) * Sq(NIn),
                   10 * Sq(NIn) * Sq(NOut)))

(* C8 amended: the term is 0.1 * (mean(relu(E_in+25)^2) + mean(relu(-7-E_out)^2)),
   the means taken of the squares; the mean of no rows is NaN. *)
C8_MeanOfSquares ==
  energy_term # << >> =>
    ValEq(energy_term[1],
          IF NIn = 0 \/ NOut = 0 THEN NaN
          ELSE Val(SqExcessIn * NOut + SqExcessOut * NIn, 10 * NIn * NOut))

\* a term was computed for a batch with rows on both sides of the split whose
\* excesses differ, so that the two readings of the formula differ
C8_Witness ==
  /\ energy_term # << >>
  /\ NIn >= 2 /\ NOut >= 2
  /\ ~energy_term[1].nan /\ energy_term[1].num > 0
  /\ Sq(ExcessIn) # SqExcessIn * NIn

(* C9: the term is 0 whenever every in-distribution energy is <= -25 and every
   auxiliary energy is >= -7, also when the prefix or the suffix is empty. *)
C9_ZeroInsideBands ==
  (/\ energy_term # << >>
   /\ \A i \in InRows : Ec[i] <= -25
   /\ \A i \in OutRows : Ec[i] >= -7)
    => ValEq(energy_term[1], Val(0, 1))

(* ==================== checkpoint path (lines 80-96) ==================== *)
\* longest --model_filename explored, in symbols
MaxNameLen == 4

\* strings are sequences of symbols; no symbol is a prefix of another, so two
\* sequences are equal exactly when the strings they spell are
Symbols == {"a", ".", "/", "_energy", "_OE", "pth"}
Scores == {"None", "energy", "OE"}
ModelDirs == { << >>, <<"a">>, <<"a", "/">>, <<"/">>, <<"a", ".", "a">> }

RECURSIVE FirstDot(_, _)
\* index of the first "." of q at or after i, Len(q)+1 if there is none
FirstDot(q, i) ==
  IF i > Len(q) THEN i ELSE IF q[i] = "." THEN i ELSE FirstDot(q, i + 1)

\* model_filename.rsplit('.')[0]: without maxsplit every "." splits, so the
\* first piece is what precedes the first "."
RsplitDotFirst(q) == SubSeq(q, 1, FirstDot(q, 1) - 1)

\* faulty variant: the OE branch appends the energy suffix
ModelFilename_SameSuffix(fn, score) ==
  IF score \in {"OE", "energy"} THEN RsplitDotFirst(fn) \o <<"_energy", ".", "pth">>
  ELSE fn

\* lines 81-85: the filename under --score
ModelFilename(fn, score) ==
  IF score = "OE" THEN RsplitDotFirst(fn) \o <<"_OE", ".", "pth">>
  ELSE IF score = "energy" THEN RsplitDotFirst(fn) \o <<"_energy", ".", "pth">>
  ELSE fn

\* os.path.join(a, b) of posixpath
PathJoin(a, b) ==
  IF b # << >> /\ Head(b) = "/" THEN b
  ELSE IF a = << >> \/ a[Len(a)] = "/" THEN a \o b
  ELSE a \o <<"/">> \o b

PathInit ==
  /\ JobIdle
  /\ EvalIdle
  /\ EnergyIdle
  /\ RoundIdle
  /\ path_argv \in [model_dir : ModelDirs, model_filename : SeqsUpTo(Symbols, MaxNameLen)]
  /\ model_filepath = [sc \in Scores |-> << >>]

\* lines 80-96 of a run started with --score sc
ComputePath(sc) ==
  /\ model_filepath[sc] = << >>
  /\ model_filepath' = [model_filepath EXCEPT ![sc] =
        <<PathJoin(path_argv.model_dir, ModelFilename(path_argv.model_filename, sc))>>]
  /\ UNCHANGED path_argv
  /\ UNCHANGED <<mainVars, evalVars, energyVars, roundVars>>

PathNext == \E sc \in Scores : ComputePath(sc)

SpecPath == PathInit /\ [][PathNext]_vars

\* q ends with the sequence t
EndsWith(q, t) == Len(q) >= Len(t) /\ SubSeq(q, Len(q) - Len(t) + 1, Len(q)) = t

(* C10: under one --model_dir and --model_filename the checkpoint paths of the
   score modes none, energy and OE are pairwise distinct; the energy path
   carries the suffix _energy and the OE path the suffix _OE. *)
C10_PathsDistinct ==
  /\ \A s1, s2 \in Scores :
       (s1 # s2 /\ model_filepath[s1] # << >> /\ model_filepath[s2] # << >>)
         => model_filepath[s1] # model_filepath[s2]
  /\ model_filepath["energy"] # << >>
       => EndsWith(model_filepath["energy"][1], <<"_energy", ".", "pth">>)
  /\ model_filepath["OE"] # << >>
       => EndsWith(model_filepath["OE"][1], <<"_OE", ".", "pth">>)

\* the three paths were computed for a filename that already carries a mode
\* suffix and two dots
C10_Witness ==
  /\ \A sc \in Scores : model_filepath[sc] # << >>
  /\ path_argv.model_filename = <<"a", "_energy", ".", "pth">>
  /\ path_argv.model_dir = <<"a">>
  /\ model_filepath["energy"] = << <<"a", "/", "a", "_energy", "_energy", ".", "pth">> >>

(* ============ checkpoint round trip (lines 113-117, 167) =============== *)
\* largest value of a parameter explored
MaxParamVal == 4

\* the parameter names of the model that is wrapped at line 111
Keys == {"weight", "bias"}
ParamVals == 0..MaxParamVal

\* the device indices a process of the job can have (cuda:local_rank)
LocalRanks == 0..(MaxWorkers - 1)

\* the wrapper holds the model as its submodule "module" (line 111), so the
\* parameters of the wrapped model are named "module.<name>"
WrappedKeys == {<<"module", n>> : n \in Keys}

\* faulty variant: the state_dict of the inner model, without the prefix
StateDict_Unwrapped(m) ==
  [k \in {<<n>> : n \in Keys} |-> [device |-> m.device, val |-> m.module[k[1]]]]

\* line 167: ddp_model.state_dict(): the wrapper names every parameter of
\* the model it wraps with the prefix "module."; the tensors stay on the
\* device of the replica
StateDict(m) ==
  [k \in WrappedKeys |->
      [device |-> m.device, val |-> m.module[k[2]]]]

\* line 167: torch.save pickles the dictionary, each tensor with its device tag
TorchSave(sd) == sd

\* line 116: map_location = {'cuda:%d' % 0: 'cuda:%d' % local_rank}
MapLocation(lr) == [d \in {0} |-> lr]

\* line 117: torch.load(model_filepath, map_location=map_location): every
\* tensor tagged with a device of the map is restored on the mapped device
TorchLoad(f, ml) ==
  [k \in DOMAIN f |->
      [device |-> IF f[k].device \in DOMAIN ml THEN ml[f[k].device] ELSE f[k].device,
       val |-> f[k].val]]

\* line 117: ddp_model.load_state_dict(sd), strict: the keys must be those of
\* the wrapped model; the values are copied into its parameters, which stay
\* on its device
LoadStateDict(m, sd) ==
  IF DOMAIN sd = WrappedKeys
    THEN [kind |-> "ok", device |-> m.device,
          module |-> [n \in Keys |-> sd[<<"module", n>>].val]]
    ELSE [kind |-> "fail", device |-> m.device, module |-> m.module]

\* lines 105-111: the wrapped model of the process with device index lr,
\* freshly constructed
FreshModel(lr) == [device |-> lr, module |-> [n \in Keys |-> InitParams]]

\* the saving worker (device index 0, line 165) holds any parameter values
RoundInit ==
  /\ JobIdle
  /\ EvalIdle
  /\ EnergyIdle
  /\ PathIdle
  /\ rt_pc = "built"
  /\ saver_model \in [device : {0}, module : [Keys -> ParamVals]]
  /\ ckpt_file = << >>
  /\ map_location = << >>
  /\ loaded_sd = << >>
  /\ ddp_model = << >>

\* line 167
SaveCheckpoint ==
  /\ rt_pc = "built"
  /\ ckpt_file' = <<TorchSave(StateDict(saver_model))>>
  /\ rt_pc' = "saved"
  /\ UNCHANGED <<saver_model, map_location, loaded_sd, ddp_model>>
  /\ UNCHANGED <<mainVars, evalVars, energyVars, pathVars>>

\* lines 116-117, torch.load, in a process started with --local_rank lr
ReadCheckpoint(lr) ==
  /\ rt_pc = "saved"
  /\ map_location' = <<MapLocation(lr)>>
  /\ loaded_sd' = <<TorchLoad(ckpt_file[1], MapLocation(lr))>>
  /\ ddp_model' = <<FreshModel(lr)>>
  /\ rt_pc' = "read"
  /\ UNCHANGED <<saver_model, ckpt_file>>
  /\ UNCHANGED <<mainVars, evalVars, energyVars, pathVars>>

\* line 117, load_state_dict
AssignCheckpoint ==
  /\ rt_pc = "read"
  /\ ddp_model' = <<LoadStateDict(ddp_model[1], loaded_sd[1])>>
  /\ rt_pc' = "loaded"
  /\ UNCHANGED <<saver_model, ckpt_file, map_location, loaded_sd>>
  /\ UNCHANGED <<mainVars, evalVars, energyVars, pathVars>>

RoundNext ==
  \/ SaveCheckpoint
  \/ \E lr \in LocalRanks : ReadCheckpoint(lr)
  \/ AssignCheckpoint

SpecRoundTrip == RoundInit /\ [][RoundNext]_vars

(* C12: after the save, a worker with any local device index that resumes
   into a freshly constructed wrapped model holds exactly the parameter
   values the saver held at the moment of the save, on its own device. *)
C12_RoundTrip ==
  /\ rt_pc \in {"read", "loaded"} =>
       \A k \in DOMAIN loaded_sd[1] : loaded_sd[1][k].device = ddp_model[1].device
  /\ rt_pc = "loaded" =>
       /\ ddp_model[1].kind = "ok"
       /\ ddp_model[1].module = saver_model.module

\* a worker on another device than the saver's has resumed parameters that
\* differ from one another and from the fresh ones
C12_Witness ==
  /\ rt_pc = "loaded"
  /\ ddp_model[1].device # saver_model.device
  /\ ddp_model[1].module["weight"] # ddp_model[1].module["bias"]
  /\ \A n \in Keys : ddp_model[1].module[n] # InitParams

(* ===================== properties of the training job ================== *)
\* worker w has passed the resume block and the setup (line 150)
PastSetup(w) == pc[w] \notin {"init", "loading", "failed"}

\* worker w is inside the epoch loop of lines 158-193
InLoop(w) == pc[w] \in {"epoch", "periodic", "save", "saving", "train", "backward", "allreduce"}

\* the epochs of the torch.save calls of worker w
SavedEpochs(w) == {saves[w][i][1] : i \in 1..Len(saves[w])}

(* C1: a write to the checkpoint path is performed only by the worker whose
   rank is 0, and at most one worker is writing the checkpoint path at any
   time. *)
C1_OnlyRankZeroWrites ==
  /\ \A w \in Workers : (w \in writers \/ saves[w] # << >>) => w = 0
  /\ Cardinality(writers) <= 1

(* C2: the workers run the training loop in lockstep: the numbers of completed
   backward passes (and of forward passes, and the epochs) of any two workers
   differ by at most one, and a worker has at most one forward pass that no
   completed backward pass has synchronised. *)
C2_Lockstep ==
  \A i, j \in Workers :
    /\ bwd[i] - bwd[j] <= 1
    /\ fwd[i] - fwd[j] <= 1
    /\ fwd[i] - bwd[i] \in {0, 1}
    /\ (PastSetup(i) /\ PastSetup(j)) => epoch[i] - epoch[j] <= 1

\* two workers, one of them a completed backward pass ahead of the other
C2_Witness ==
  \E i, j \in Workers : bwd[i] = bwd[j] + 1 /\ bwd[j] >= 1 /\ pc[j] = "allreduce"

(* C3: whenever two workers have completed the same number of optimizer steps
   (zero included: from the start of the run, with or without --resume), their
   replicas hold identical parameters. *)
C3_ReplicasIdentical ==
  \A i, j \in Workers :
    (PastSetup(i) /\ PastSetup(j) /\ steps[i] = steps[j]) => params[i] = params[j]

\* a resumed job in which two workers have both completed the same step
C3_Witness ==
  /\ argv.resume
  /\ \E i, j \in Workers : i # j /\ steps[i] = steps[j] /\ steps[i] >= 2
                           /\ params[i] = params[j]

(* C4: with --eval a worker performs no optimizer step and no checkpoint write,
   never enters the epoch loop, and has exited as soon as the accuracy it
   computed is printed. *)
C4_EvalModeGating ==
  argv.eval =>
    \A w \in Workers :
      /\ steps[w] = 0 /\ fwd[w] = 0 /\ saves[w] = << >> /\ w \notin writers
      /\ ~InLoop(w) /\ pc[w] \notin {"close", "done"}
      /\ printed[w] # << >> => (pc[w] = "exited" /\ printed[w] = accuracy[w])
      /\ pc[w] = "exited" => printed[w] = <<Accuracy(params[w])>>

\* a resumed --eval job in which a worker of non-zero rank has printed and exited
C4_Witness ==
  /\ argv.eval /\ argv.resume /\ argv.num_epochs > 0
  /\ \E w \in Workers : w # 0 /\ pc[w] = "exited" /\ printed[w] = <<StoredParams>>

(* C5: when --resume is given and the checkpoint is missing or incompatible,
   a worker that reaches the resume block fails there: it never evaluates,
   never steps the optimizer, never writes the checkpoint and never goes on
   with the freshly initialised parameters. *)
C5_ResumeFailsFatally ==
  (argv.resume /\ ckpt.kind \in {"missing", "bad"}) =>
    \A w \in Workers :
      /\ pc[w] \in {"init", "loading", "failed"}
      /\ pc[w] = "loading" => ckpt.kind = "bad"
      /\ steps[w] = 0 /\ fwd[w] = 0 /\ accuracy[w] = << >> /\ evals[w] = {}
      /\ saves[w] = << >> /\ w \notin writers

\* every worker of a job of several workers has failed on an incompatible checkpoint
C5_Witness ==
  /\ argv.resume /\ ckpt.kind = "bad" /\ NumWorkers >= 2
  /\ \A w \in Workers : pc[w] = "failed"

\* the same for a missing checkpoint
C5_WitnessMissing ==
  /\ argv.resume /\ ckpt.kind = "missing" /\ NumWorkers >= 2
  /\ \A w \in Workers : pc[w] = "failed"

(* C6: in every epoch e with e mod 10 = 0 rank 0 calls the Evaluator and then
   saves the checkpoint, both before the first training batch of e; in the
   other epochs nobody evaluates or saves; workers of non-zero rank never
   evaluate or save. *)
C6_PeriodicEvalThenSave ==
  \A w \in Workers :
    /\ \A e \in evals[w] \cup SavedEpochs(w) : e % EvalPeriod = 0 /\ w = 0
    /\ SavedEpochs(w) \subseteq evals[w]
    /\ (w = 0 /\ pc[w] \in {"train", "backward", "allreduce"} /\ epoch[w] % EvalPeriod = 0)
         => (epoch[w] \in evals[w] /\ epoch[w] \in SavedEpochs(w) /\ w \notin writers)
    /\ w # 0 => pc[w] \notin {"periodic", "save", "saving"}

\* worker w died inside the batch loop
Crashed(w) == pc[w] = "crashed"

\* worker w died after the all-reduce of the last batch of the last epoch had
\* completed: the averaged gradient was delivered to it and never applied
CrashedAfterLastAllReduce(w) ==
  /\ Crashed(w)
  /\ reduced[w] # << >>
  /\ epoch[w] = argv.num_epochs - 1
  /\ batch[w] = NumBatches - 1

(* C11 as stated: once a worker has died inside the batch loop, at whatever
   point, no other worker completes its epochs and reaches Closed. *)
C11_CrashStopsAll ==
  \A w, v \in Workers : (Crashed(w) /\ v # w) => pc[v] \notin {"close", "done"}

(* C11 amended: once a worker has died inside the batch loop, no other worker
   completes its epochs and reaches Closed, unless the worker died after the
   all-reduce of the run's last batch iteration had completed. *)
C11_CrashStopsAllBeforeLastAllReduce ==
  \A w, v \in Workers :
    (Crashed(w) /\ ~CrashedAfterLastAllReduce(w) /\ v # w)
      => pc[v] \notin {"close", "done"}

\* a worker died in a later epoch and its peer is stalled in the all-reduce of
\* the iteration the dead worker never joined
C11_Witness ==
  \E w, v \in Workers :
    /\ Crashed(w) /\ v # w /\ epoch[w] >= 1
    /\ pc[v] = "allreduce" /\ grads[v] # << >> /\ reduced[v] = << >>
    /\ bwd[v] = bwd[w]

\* worker w's process has ended without an exception: the script ran to its
\* end (line 194) or called exit() (line 155)
EndedCleanly(w) == pc[w] \in {"done", "exited"}

\* worker w closed its sink at most once, and only after its last epoch
ClosedAfterLastEpoch(w) ==
  /\ closed[w] <= 1
  /\ closed[w] = 1 =>
       /\ epoch[w] = argv.num_epochs
       /\ steps[w] = argv.num_epochs * NumBatches

(* C13 as stated: the sink is closed at most once and only after all
   num_epochs epochs, and every worker whose run ended without a fatal error
   has closed its sink. *)
C13_EveryCleanRunCloses ==
  \A w \in Workers :
    /\ ClosedAfterLastEpoch(w)
    /\ EndedCleanly(w) => closed[w] = 1

(* C13 amended: the sink is closed at most once and only after all num_epochs
   epochs; nothing is written or closed again after the close; a training run
   that ends without a fatal error has closed its sink, while an --eval run
   ends with its sink still open. *)
C13_TrainingRunCloses ==
  /\ [](\A w \in Workers :
          /\ ClosedAfterLastEpoch(w)
          /\ pc[w] = "done" <=> closed[w] = 1
          /\ pc[w] = "exited" => (argv.eval /\ closed[w] = 0))
  /\ [][\A w \in Workers :
          closed[w] >= 1 => (sink'[w] = sink[w] /\ closed'[w] = closed[w])]_vars

\* two workers have closed their sinks after several epochs of scalars
C13_Witness ==
  /\ NumWorkers = 2
  /\ argv.num_epochs >= 2
  /\ \A w \in Workers : pc[w] = "done" /\ closed[w] = 1 /\ Len(sink[w]) >= 2

\* positions of the scalars tagged "Loss/train" in worker w's sink
TrainScalars(w) == {i \in DOMAIN sink[w] : sink[w][i][1] = "Loss/train"}

\* sum of the batch losses worker w computed in epoch e so far
EpochLoss(w, e) ==
  SumOver([j \in DOMAIN batch_losses[w] |-> batch_losses[w][j][2]],
          {j \in DOMAIN batch_losses[w] : batch_losses[w][j][1] = e})

(* C14: after the batch loop of each epoch e every worker, whatever its rank,
   has written exactly one train-loss scalar with step e, whose value is the
   sum of the losses of that epoch's batches divided by the sampler length;
   inside an epoch the accumulator holds the losses of that epoch only. *)
C14_TrainLossPerEpoch ==
  \A w \in Workers :
    /\ \A e \in 0..argv.num_epochs :
         Cardinality({i \in TrainScalars(w) : sink[w][i][3] = e})
           = IF e < epoch[w] THEN 1 ELSE 0
    /\ \A i \in TrainScalars(w) :
         sink[w][i][2] = <<EpochLoss(w, sink[w][i][3]), ShardLen>>
    /\ pc[w] \in {"train", "backward", "allreduce"} =>
         avg_loss_train[w] = EpochLoss(w, epoch[w])

\* a worker that never evaluates has written the train loss of a second epoch
C14_Witness ==
  \E w \in Workers :
    /\ ~IsSaver(w)
    /\ epoch[w] >= 2
    /\ \E i \in TrainScalars(w) : sink[w][i][3] = 1 /\ sink[w][i][2][1] > 0

\* worker v has not finished lines 115-117 yet
StillToRead(v) == pc[v] \in {"init", "loading"}

\* some worker has begun a torch.save of this job
WriteBegun == \E w \in Workers : saves[w] # << >>

(* C15: in a job started with --resume every worker has finished reading the
   checkpoint file before the first write to the same path begins, so that no
   resume read overlaps a checkpoint write. *)
C15_ResumeReadsBeforeFirstWrite ==
  argv.resume =>
    /\ WriteBegun => \A v \in Workers : ~StillToRead(v)
    /\ \A v \in Workers : pc[v] = "loading" => (writers = {} /\ ~readDirty[v])

\* rank 0 is inside the block of lines 165-167 (evaluate, then torch.save)
InPeriodicEval(w) == pc[w] \in {"periodic", "save", "saving"}

\* optimizer steps a worker has completed when it stands at the start of epoch e
StepsAtEpoch(e) == e * NumBatches

(* C16: while rank 0 is in the evaluate-and-save block of epoch e, no worker
   has completed an optimizer step of epoch e, so every replica that stands
   at the epoch-e boundary holds rank 0's parameters, and these are the
   parameters passed to torch.save. *)
C16_NoStepDuringPeriodicEval ==
  InPeriodicEval(0) =>
    /\ \A v \in Workers : steps[v] <= StepsAtEpoch(epoch[0])
    /\ \A v \in Workers :
         (PastSetup(v) /\ steps[v] = StepsAtEpoch(epoch[0])) => params[v] = params[0]
    /\ pc[0] = "saving" => saves[0][Len(saves[0])] = <<epoch[0], params[0]>>

\* rank 0 is writing the checkpoint of epoch 10 while another worker has
\* already run the first forward pass of that epoch and waits in the all-reduce
C16_Witness ==
  /\ pc[0] = "saving" /\ epoch[0] = EvalPeriod
  /\ \E v \in Workers :
       /\ v # 0 /\ epoch[v] = EvalPeriod
       /\ fwd[v] = StepsAtEpoch(EvalPeriod) + 1
       /\ pc[v] = "allreduce"

\* every worker has run all its epochs and closed its sink
AllClosed ==
  \A w \in Workers :
    /\ pc[w] = "done" /\ closed[w] = 1
    /\ epoch[w] = argv.num_epochs
    /\ steps[w] = StepsAtEpoch(argv.num_epochs)

\* some worker has ended with a fatal error
SomeFailed == \E w \in Workers : pc[w] \in {"failed", "crashed"}

(* C17 as stated: if no worker fails, every worker eventually completes
   exactly num_epochs epochs and reaches Closed. *)
C17_AllReachClosed == <>(AllClosed \/ SomeFailed)

(* C17 amended: in a training run (no --eval) in which no worker fails, every
   worker eventually completes exactly num_epochs epochs and reaches Closed. *)
C17_TrainingRunReachesClosed == (~argv.eval) => <>(AllClosed \/ SomeFailed)

\* two workers, one of which never evaluates, have completed a run with two
\* periodic evaluations
C17_Witness ==
  /\ NumWorkers = 2 /\ topo.nnodes = 1
  /\ argv.num_epochs > EvalPeriod
  /\ AllClosed
  /\ evals[0] = {0, EvalPeriod}

\* the last epoch of a run of n epochs at which line 164 holds
LastPeriodicEpoch(n) == EvalPeriod * ((n - 1) \div EvalPeriod)

\* what rank 0 passed to its last torch.save
LastSave == saves[0][Len(saves[0])]

(* C18: when a run of num_epochs = n >= 1 has completed, the checkpoint holds
   the parameters rank 0 had at the start of epoch 10*floor((n-1)/10): rank
   0's last write is the one of that epoch, and the steps taken since are not
   in the file. *)
C18_LastCheckpointIsStale ==
  (AllClosed /\ argv.num_epochs >= 1) =>
    /\ saves[0] # << >>
    /\ LastSave[1] = LastPeriodicEpoch(argv.num_epochs)
    /\ ckpt = File("ok", LastSave[2])
    /\ params[0] # ckpt.val

\* the parameters a worker holds when it enters the epoch loop: the loaded
\* ones under --resume, else those of the freshly constructed model
StartParams == IF argv.resume THEN StoredParams ELSE InitParams

\* rank 0's first torch.save has returned
FirstWriteDone == Len(saves[0]) >= 2 \/ (Len(saves[0]) = 1 /\ pc[0] # "saving")

(* C19: in a training run the epoch counter starts at 0, also with --resume,
   and rank 0's first checkpoint write precedes every optimizer step of the
   run and rank 0's own first forward pass; what it writes are the start
   parameters: the untrained initial ones, or under --resume the ones just
   loaded. *)
C19_FirstWriteBeforeAnyStep ==
  (~argv.eval) =>
    /\ \A w \in Workers : fwd[w] = 0 => epoch[w] = 0
    /\ (fwd[0] > 0 \/ \E v \in Workers : steps[v] > 0) => FirstWriteDone
    /\ saves[0] # << >> => saves[0][1] = <<0, StartParams>>
    /\ (FirstWriteDone /\ \A v \in Workers : Len(saves[v]) <= 1 /\ ckpt.kind = "ok")
         => ckpt.val = StartParams

\* a resumed run has rewritten the checkpoint with the loaded parameters and
\* then taken its first optimizer step
C19_Witness ==
  /\ argv.resume /\ ~argv.eval
  /\ saves[0] = << <<0, StoredParams>> >>
  /\ ckpt = File("ok", StoredParams)
  /\ steps[0] = 1 /\ params[0] # StoredParams

====
